---------------------------- MODULE Spec2Model ----------------------------
(***************************************************************************)
(* rwhois: a whois relay.  One session (rwhois_process) per accepted       *)
(* client connection reads framed lines, resolves the last dot-separated   *)
(* label of a single-token line in WHOIS_LUT, connects to the upstream on  *)
(* port 43, forwards the token followed by CRLF and copies the upstream's  *)
(* bytes back to the client.                                               *)
(*                                                                         *)
(* Strings are modelled as sequences of one-character strings, so that     *)
(* split_whitespace, split(".") and format! are computed, not assumed.     *)
(***************************************************************************)
EXTENDS Integers, Sequences, FiniteSets, TLC

VARIABLES
    pc,            \* per session: the await point rwhois_process is parked at
    item,          \* per session: the last value codec.next() returned
    nRead,         \* per session: how many values codec.next() has returned
    client_write,  \* per session: every byte written to the client, in order
    client_open,   \* per session: the client TcpStream is still owned (not dropped)
    whois_stream,  \* per session: the upstream stream of the line being processed
    open_streams,  \* per session: ids of upstream streams opened and not yet dropped
    nConnect,      \* per session: number of TcpStream::connect calls made
    qStart,        \* per session: Len(client_write) when the current line was read
    log,           \* per session: the log records emitted, in order
    result,        \* per session: the value rwhois_process returned, if any
    client_state,  \* per session: what the client's socket will yield next
    tick,          \* per session: parity of the reads that met a failed socket
    listener,      \* where rwhois_serve and main stand
    nAccepted,     \* number of connections listener.accept() has returned
    serve_log      \* the log records of rwhois_serve, of the spawned tasks' wrapper and of main

\* the state of the sessions
sessVars == <<pc, item, nRead, client_write, client_open, whois_stream,
              open_streams, nConnect, qStart, log, result>>

\* the state of the clients' sockets
clientVars == <<client_state, tick>>

\* the state of rwhois_serve and main
serveVars == <<listener, nAccepted, serve_log>>

vars == <<pc, item, nRead, client_write, client_open, whois_stream,
          open_streams, nConnect, qStart, log, result, client_state, tick,
          listener, nAccepted, serve_log>>

(* client_write holds what the session writes to the client: the chunks    *)
(* copy has written (line 65) and the rejection text (line 79, whose       *)
(* result is discarded).  whois_stream is kept, after the stream itself is  *)
(* dropped, as the record of the connection made for the line last read,    *)
(* until the next value is read; open_streams says whether it is open.      *)
(* item, nRead, nConnect and qStart record the run and steer nothing.       *)

---------------------------------------------------------------------------
(* Bounds of the model. *)

\* values codec.next() yields per session before the client must close
MaxLines == 2
\* bytes the upstreams send to one session, over all its connections
MaxBytes == 2
\* dot-separated labels in a generated token
MaxLabels == 2

---------------------------------------------------------------------------
(* Text helpers. *)

Str_com == <<"c", "o", "m">>
Str_io == <<"i", "o">>
Str_x == <<"x">>
Str_zz == <<"z", "z">>
Str_COM == <<"C", "O", "M">>

Whitespace == {" ", "\t", "\r"}

IsPrefix(p, q) == Len(p) <= Len(q) /\ SubSeq(q, 1, Len(p)) = p

---------------------------------------------------------------------------
(* The routing table. *)

WHOIS_LUT ==
    (<<"a", "d">> :> "whois.ripe.net") @@
    (<<"a", "e">> :> "whois.aeda.net.ae") @@
    (<<"a", "e", "r", "o">> :> "whois.aero") @@
    (<<"a", "f">> :> "whois.nic.af") @@
    (<<"c", "a">> :> "whois.cira.ca") @@
    (<<"c", "h">> :> "whois.nic.ch") @@
    (<<"c", "o">> :> "whois.nic.co") @@
    (Str_com :> "whois.verisign-grs.com") @@
    (<<"d", "e", "v">> :> "whois.nic.google") @@
    (<<"i", "n">> :> "whois.registry.in") @@
    (Str_io :> "whois.nic.io") @@
    (<<"n", "e", "t">> :> "whois.verisign-grs.com") @@
    (<<"o", "r", "g">> :> "whois.publicregistry.net")

WhoisPort == 43

\* format!("{}:43", whois_hostname)
whois_addr(whois_hostname) == [host |-> whois_hostname, port |-> WhoisPort]

\* variant: the request ends in a bare line feed
request_LfOnly(token) == token \o <<"\n">>

\* format!("{}\r\n", splits[0])
request(token) == token \o <<"\r", "\n">>

InvalidDomainText ==
    <<"I", "n", "v", "a", "l", "i", "d", " ", "d", "o", "m", "a", "i", "n",
      " ", "n", "a", "m", "e">>

---------------------------------------------------------------------------
(* str::split_whitespace: the maximal runs of non-whitespace characters.   *)

RECURSIVE SplitWs(_, _, _)
SplitWs(l, cur, acc) ==
    IF l = <<>>
    THEN IF cur = <<>> THEN acc ELSE Append(acc, cur)
    ELSE IF Head(l) \in Whitespace
         THEN SplitWs(Tail(l), <<>>, IF cur = <<>> THEN acc ELSE Append(acc, cur))
         ELSE SplitWs(Tail(l), Append(cur, Head(l)), acc)

split_whitespace(l) == SplitWs(l, <<>>, <<>>)

(* str::split("."): the pieces between the dots, empty pieces kept, so the *)
(* result always has one more element than the string has dots.            *)

RECURSIVE SplitOn(_, _, _)
SplitOn(t, cur, acc) ==
    IF t = <<>>
    THEN Append(acc, cur)
    ELSE IF Head(t) = "."
         THEN SplitOn(Tail(t), <<>>, Append(acc, cur))
         ELSE SplitOn(Tail(t), Append(cur, Head(t)), acc)

\* variant: an empty last piece is dropped, as str::split_terminator does
split_dot_Terminator(token) ==
    LET ps == SplitOn(token, <<>>, <<>>) IN
    IF ps[Len(ps)] = <<>> THEN SubSeq(ps, 1, Len(ps) - 1) ELSE ps

split_dot(token) == SplitOn(token, <<>>, <<>>)

---------------------------------------------------------------------------
(* The inputs a client can send, drawn from small sets.                    *)

LeadLabels == {Str_x, Str_com}
LastLabels == {Str_com, Str_io, Str_zz, Str_COM, <<>>}

\* tokens made of exactly n dot-separated labels
RECURSIVE TokensOf(_)
TokensOf(n) ==
    IF n = 1
    THEN LastLabels \cup {Str_x}
    ELSE {ld \o <<".">> \o t : ld \in LeadLabels, t \in TokensOf(n - 1)}

\* a token is a maximal run of non-whitespace characters: never empty
Tokens == ((UNION {TokensOf(n) : n \in 1..MaxLabels}) \ {<<>>}) \cup {<<".">>}

SampleTokens == {Str_x \o <<".">> \o Str_com, Str_x \o <<".">> \o Str_zz, Str_x}

Lines ==
    {<<>>, <<" ", "\t">>}
    \cup Tokens
    \cup {<<"\t">> \o t \o <<" ", "\r">> : t \in SampleTokens}
    \cup {t \o <<" ">> \o u : t \in SampleTokens, u \in {Str_x \o <<".">> \o Str_com}}

\* the bytes an upstream may send
Bytes == {"a", "b"}

---------------------------------------------------------------------------
(* Values of the state. *)

\* whois_stream, the upstream connection of the line being processed: id
\* numbers the connect calls of the session; addr is the address connected
\* to; sent is what the session has handed to whois_write.write_all; written
\* says that write_all returned Ok; recv is what the upstream has sent and
\* copy has read; eof says that copy saw the upstream close.  NoStream: the
\* line being processed has called connect not at all.
NoStream ==
    [id |-> 0, addr |-> [host |-> "", port |-> 0], sent |-> <<>>,
     written |-> FALSE, recv |-> <<>>, eof |-> FALSE]

NoItem == [kind |-> "none", l |-> <<>>]

Running == "running"
OkResult == "Ok(())"
ErrInvalidDomain == "Err(InvalidDomainError)"
ErrCodec == "Err(CodecError)"

LogWouldUse == "info: Would use whois server"
LogCopyFailed == "error: unable to write back response"
LogConnectFailed == "error: unable to connect to whois server"
LogCodecError == "error: an error occurred while processing messages"
LogClose == "info: close"
LogRunning == "info: rwhois server running"
LogProcessError == "error: rwhois_process error"
LogServeError == "error: rwhois serve"

Sessions == DOMAIN pc

\* the single token of the line being processed (splits[0])
TokenOf(l) == split_whitespace(l)[1]

\* the bytes written to the client since the current line was read
QueryOut(s) == SubSeq(client_write[s], qStart[s] + 1, Len(client_write[s]))

\* state after rwhois_serve has accepted its first connection and
\* rwhois_process has split the stream and built the codec
Init ==
    /\ pc = (1 :> "Reading")
    /\ item = (1 :> NoItem)
    /\ nRead = (1 :> 0)
    /\ client_write = (1 :> <<>>)
    /\ client_open = (1 :> TRUE)
    /\ whois_stream = (1 :> NoStream)
    /\ open_streams = (1 :> {})
    /\ nConnect = (1 :> 0)
    /\ qStart = (1 :> 0)
    /\ log = (1 :> <<>>)
    /\ result = (1 :> Running)
    /\ client_state = (1 :> "sending")
    /\ tick = (1 :> 0)
    /\ listener = "accepting"
    /\ nAccepted = 1
    /\ serve_log = <<LogRunning>>

---------------------------------------------------------------------------
(* The branches of the match on one line (lines 46-84).                     *)

\* lines 55-60: the table has the label; log and start the connect
StartConnect(s, whois_hostname) ==
    /\ log' = [log EXCEPT ![s] = Append(@, LogWouldUse)]
    /\ nConnect' = [nConnect EXCEPT ![s] = @ + 1]
    /\ whois_stream' = [whois_stream EXCEPT ![s] =
            [id |-> nConnect[s] + 1, addr |-> whois_addr(whois_hostname),
             sent |-> <<>>, written |-> FALSE, recv |-> <<>>, eof |-> FALSE]]
    /\ pc' = [pc EXCEPT ![s] = "Connecting"]
    /\ UNCHANGED <<client_write, client_open, open_streams, result>>

\* variant: the rejection text is written as a line
Reject_AddsNewline(s) ==
    /\ client_write' = [client_write EXCEPT ![s] = @ \o InvalidDomainText \o <<"\n">>]
    /\ result' = [result EXCEPT ![s] = ErrInvalidDomain]
    /\ client_open' = [client_open EXCEPT ![s] = FALSE]
    /\ pc' = [pc EXCEPT ![s] = "Closed"]
    /\ whois_stream' = [whois_stream EXCEPT ![s] = NoStream]
    /\ UNCHANGED <<open_streams, nConnect, log>>

\* variant: the rejection text is written to every connected client
Reject_Broadcast(s) ==
    /\ client_write' = [t \in Sessions |->
            IF client_open[t] THEN client_write[t] \o InvalidDomainText
            ELSE client_write[t]]
    /\ result' = [result EXCEPT ![s] = ErrInvalidDomain]
    /\ client_open' = [client_open EXCEPT ![s] = FALSE]
    /\ pc' = [pc EXCEPT ![s] = "Closed"]
    /\ whois_stream' = [whois_stream EXCEPT ![s] = NoStream]
    /\ UNCHANGED <<open_streams, nConnect, log>>

\* variant: after the rejection text the loop goes on
Reject_KeepsReading(s) ==
    /\ client_write' = [client_write EXCEPT ![s] = @ \o InvalidDomainText]
    /\ pc' = [pc EXCEPT ![s] = "Reading"]
    /\ whois_stream' = [whois_stream EXCEPT ![s] = NoStream]
    /\ UNCHANGED <<client_open, open_streams, nConnect, log, result>>

\* lines 79-80: the table lacks the label; tell the client and return Err
Reject(s) ==
    /\ client_write' = [client_write EXCEPT ![s] = @ \o InvalidDomainText]
    /\ result' = [result EXCEPT ![s] = ErrInvalidDomain]
    /\ client_open' = [client_open EXCEPT ![s] = FALSE]
    /\ pc' = [pc EXCEPT ![s] = "Closed"]
    /\ whois_stream' = [whois_stream EXCEPT ![s] = NoStream]
    /\ UNCHANGED <<open_streams, nConnect, log>>

\* the line is no query (the ifs of lines 49 and 52 have no else): loop again
Discard(s) ==
    /\ pc' = [pc EXCEPT ![s] = "Reading"]
    /\ whois_stream' = [whois_stream EXCEPT ![s] = NoStream]
    /\ UNCHANGED <<client_write, client_open, open_streams, nConnect, log,
                   result>>

\* line 49
IsSingleToken(splits) == Len(splits) = 1

\* variant: pairs.len() > 0
IsDotted_NonEmpty(pairs) == Len(pairs) > 0

\* line 52
IsDotted(pairs) == Len(pairs) > 1

\* variant: the first key of the table found among the labels, from the left
LookupLabel_AnyLabel(pairs) ==
    IF \E i \in 1..Len(pairs) : pairs[i] \in DOMAIN WHOIS_LUT
    THEN pairs[CHOOSE i \in 1..Len(pairs) :
                  /\ pairs[i] \in DOMAIN WHOIS_LUT
                  /\ \A j \in 1..(i - 1) : pairs[j] \notin DOMAIN WHOIS_LUT]
    ELSE pairs[Len(pairs)]

\* line 54: the label looked up is the last one
LookupLabel(pairs) == pairs[Len(pairs)]

\* lines 48-83
Process(s, l) ==
    LET splits == split_whitespace(l) IN
    IF IsSingleToken(splits)
    THEN LET pairs == split_dot(splits[1]) IN
         IF IsDotted(pairs)
         THEN IF LookupLabel(pairs) \in DOMAIN WHOIS_LUT
              THEN StartConnect(s, WHOIS_LUT[LookupLabel(pairs)])
              ELSE Reject(s)
         ELSE Discard(s)
    ELSE Discard(s)

---------------------------------------------------------------------------
(* The steps of rwhois_process, one per resumption of the task.            *)

\* variant: the next line is read while the answer to the last is relayed
ReadLine_Pipelined(s, l) ==
    /\ pc[s] \in {"Reading", "Copying"}
    /\ nRead[s] < MaxLines
    /\ nRead' = [nRead EXCEPT ![s] = @ + 1]
    /\ item' = [item EXCEPT ![s] = [kind |-> "line", l |-> l]]
    /\ qStart' = [qStart EXCEPT ![s] = Len(client_write[s])]
    /\ Process(s, l)

\* codec.next() yields Some(Ok(l)); the whois_stream of the line before is
\* out of scope, StartConnect makes the one of this line
ReadLine(s, l) ==
    /\ pc[s] = "Reading"
    /\ nRead[s] < MaxLines
    /\ nRead' = [nRead EXCEPT ![s] = @ + 1]
    /\ item' = [item EXCEPT ![s] = [kind |-> "line", l |-> l]]
    /\ qStart' = [qStart EXCEPT ![s] = Len(client_write[s])]
    /\ Process(s, l)

\* variant: the error is propagated, as with the ? operator
ReadErr_Propagates(s) ==
    /\ pc[s] = "Reading"
    /\ nRead[s] < MaxLines
    /\ nRead' = [nRead EXCEPT ![s] = @ + 1]
    /\ item' = [item EXCEPT ![s] = [kind |-> "err", l |-> <<>>]]
    /\ qStart' = [qStart EXCEPT ![s] = Len(client_write[s])]
    /\ result' = [result EXCEPT ![s] = ErrCodec]
    /\ client_open' = [client_open EXCEPT ![s] = FALSE]
    /\ pc' = [pc EXCEPT ![s] = "Closed"]
    /\ whois_stream' = [whois_stream EXCEPT ![s] = NoStream]
    /\ UNCHANGED <<client_write, open_streams, nConnect, log>>

\* variant: the error ends the loop like an end-of-stream
ReadErr_Closes(s) ==
    /\ pc[s] = "Reading"
    /\ nRead[s] < MaxLines
    /\ nRead' = [nRead EXCEPT ![s] = @ + 1]
    /\ item' = [item EXCEPT ![s] = [kind |-> "err", l |-> <<>>]]
    /\ qStart' = [qStart EXCEPT ![s] = Len(client_write[s])]
    /\ log' = [log EXCEPT ![s] = Append(@, LogCodecError)]
    /\ result' = [result EXCEPT ![s] = OkResult]
    /\ client_open' = [client_open EXCEPT ![s] = FALSE]
    /\ pc' = [pc EXCEPT ![s] = "Closed"]
    /\ whois_stream' = [whois_stream EXCEPT ![s] = NoStream]
    /\ UNCHANGED <<client_write, open_streams, nConnect>>

\* codec.next() yields Some(Err(e)): lines 85-90
ReadErr(s) ==
    /\ pc[s] = "Reading"
    /\ nRead[s] < MaxLines
    /\ nRead' = [nRead EXCEPT ![s] = @ + 1]
    /\ item' = [item EXCEPT ![s] = [kind |-> "err", l |-> <<>>]]
    /\ qStart' = [qStart EXCEPT ![s] = Len(client_write[s])]
    /\ log' = [log EXCEPT ![s] = Append(@, LogCodecError)]
    /\ pc' = [pc EXCEPT ![s] = "Reading"]
    /\ whois_stream' = [whois_stream EXCEPT ![s] = NoStream]
    /\ UNCHANGED <<client_write, client_open, open_streams, nConnect, result>>

\* variant: the client's end-of-stream is seen while copy runs and cancels it
ReadNone_Anytime(s) ==
    /\ pc[s] \in {"Reading", "Copying"}
    /\ item' = [item EXCEPT ![s] = [kind |-> "eof", l |-> <<>>]]
    /\ qStart' = [qStart EXCEPT ![s] = Len(client_write[s])]
    /\ log' = [log EXCEPT ![s] = Append(@, LogClose)]
    /\ result' = [result EXCEPT ![s] = OkResult]
    /\ client_open' = [client_open EXCEPT ![s] = FALSE]
    /\ pc' = [pc EXCEPT ![s] = "Closed"]
    /\ whois_stream' = [whois_stream EXCEPT ![s] = NoStream]
    /\ open_streams' = [open_streams EXCEPT ![s] = {}]
    /\ UNCHANGED <<nRead, client_write, nConnect>>

\* codec.next() yields None: lines 92-95
ReadNone(s) ==
    /\ pc[s] = "Reading"
    /\ item' = [item EXCEPT ![s] = [kind |-> "eof", l |-> <<>>]]
    /\ qStart' = [qStart EXCEPT ![s] = Len(client_write[s])]
    /\ log' = [log EXCEPT ![s] = Append(@, LogClose)]
    /\ result' = [result EXCEPT ![s] = OkResult]
    /\ client_open' = [client_open EXCEPT ![s] = FALSE]
    /\ pc' = [pc EXCEPT ![s] = "Closed"]
    /\ whois_stream' = [whois_stream EXCEPT ![s] = NoStream]
    /\ UNCHANGED <<nRead, client_write, open_streams, nConnect>>

\* line 60, Ok arm: the stream exists; lines 62-64 hand the request to
\* whois_write.write_all
ConnectOk(s) ==
    /\ pc[s] = "Connecting"
    /\ open_streams' = [open_streams EXCEPT ![s] = @ \cup {whois_stream[s].id}]
    /\ whois_stream' = [whois_stream EXCEPT
            ![s].sent = @ \o request(TokenOf(item[s].l))]
    /\ pc' = [pc EXCEPT ![s] = "Forwarding"]
    /\ UNCHANGED <<item, nRead, client_write, client_open, nConnect, qStart,
                   log, result>>

\* variant: a failed connect is tried again (a bounded number of times)
ConnectErr_Retries(s) ==
    /\ pc[s] = "Connecting"
    /\ log' = [log EXCEPT ![s] = Append(@, LogConnectFailed)]
    /\ nConnect' = [nConnect EXCEPT ![s] = IF @ <= MaxLines THEN @ + 1 ELSE @]
    /\ whois_stream' = [whois_stream EXCEPT ![s].id = nConnect'[s]]
    /\ pc' = [pc EXCEPT ![s] = IF nConnect[s] <= MaxLines THEN "Connecting" ELSE "Reading"]
    /\ UNCHANGED <<item, nRead, client_write, client_open, open_streams,
                   qStart, result>>

\* variant: a failed connect ends the session with an error
ConnectErr_Fatal(s) ==
    /\ pc[s] = "Connecting"
    /\ log' = [log EXCEPT ![s] = Append(@, LogConnectFailed)]
    /\ result' = [result EXCEPT ![s] = ErrInvalidDomain]
    /\ client_open' = [client_open EXCEPT ![s] = FALSE]
    /\ pc' = [pc EXCEPT ![s] = "Closed"]
    /\ UNCHANGED <<item, nRead, client_write, whois_stream, open_streams,
                   nConnect, qStart>>

\* line 60, else arm: lines 72-77
ConnectErr(s) ==
    /\ pc[s] = "Connecting"
    /\ log' = [log EXCEPT ![s] = Append(@, LogConnectFailed)]
    /\ pc' = [pc EXCEPT ![s] = "Reading"]
    /\ UNCHANGED <<item, nRead, client_write, client_open, whois_stream,
                   open_streams, nConnect, qStart, result>>

\* line 64, Ok arm: write_all returned Ok; line 65 starts the copy
WriteOk(s) ==
    /\ pc[s] = "Forwarding"
    /\ whois_stream' = [whois_stream EXCEPT ![s].written = TRUE]
    /\ pc' = [pc EXCEPT ![s] = "Copying"]
    /\ UNCHANGED <<item, nRead, client_write, client_open, open_streams,
                   nConnect, qStart, log, result>>

\* variant: the stream outlives the failed write
WriteErr_Leaks(s) ==
    /\ pc[s] = "Forwarding"
    /\ pc' = [pc EXCEPT ![s] = "Reading"]
    /\ UNCHANGED <<item, nRead, client_write, client_open, whois_stream,
                   open_streams, nConnect, qStart, log, result>>

\* line 64, Err: write_all failed (nothing is logged: the if let has no
\* else); the block of line 61 ends and whois_stream is dropped
WriteErr(s) ==
    /\ pc[s] = "Forwarding"
    /\ open_streams' = [open_streams EXCEPT ![s] = @ \ {whois_stream[s].id}]
    /\ pc' = [pc EXCEPT ![s] = "Reading"]
    /\ UNCHANGED <<item, nRead, client_write, client_open, whois_stream,
                   nConnect, qStart, log, result>>

\* variant: a chunk is written twice
Relay_Doubles(out, chunk) == out \o chunk \o chunk

\* line 65: what copy writes to the client for a chunk read from the upstream
Relay(out, chunk) == out \o chunk

\* line 65: copy reads a byte the upstream sent and writes it to the client
CopyChunk(s, b) ==
    /\ pc[s] = "Copying"
    /\ Len(client_write[s]) < MaxBytes
    /\ whois_stream' = [whois_stream EXCEPT ![s].recv = Append(@, b)]
    /\ client_write' = [client_write EXCEPT ![s] = Relay(@, <<b>>)]
    /\ UNCHANGED <<pc, item, nRead, client_open, open_streams, nConnect,
                   qStart, log, result>>

\* line 65: the upstream closed, copy returns Ok; whois_stream is dropped
CopyEof(s) ==
    /\ pc[s] = "Copying"
    /\ whois_stream' = [whois_stream EXCEPT ![s].eof = TRUE]
    /\ open_streams' = [open_streams EXCEPT ![s] = @ \ {whois_stream[s].id}]
    /\ pc' = [pc EXCEPT ![s] = "Reading"]
    /\ UNCHANGED <<item, nRead, client_write, client_open, nConnect, qStart,
                   log, result>>

\* variant: a failed copy ends the session
CopyErr_Fatal(s, lost) ==
    /\ pc[s] = "Copying"
    /\ Len(client_write[s]) + Len(lost) <= MaxBytes
    /\ whois_stream' = [whois_stream EXCEPT ![s].recv = @ \o lost]
    /\ log' = [log EXCEPT ![s] = Append(@, LogCopyFailed)]
    /\ open_streams' = [open_streams EXCEPT ![s] = @ \ {whois_stream[s].id}]
    /\ result' = [result EXCEPT ![s] = OkResult]
    /\ client_open' = [client_open EXCEPT ![s] = FALSE]
    /\ pc' = [pc EXCEPT ![s] = "Closed"]
    /\ UNCHANGED <<item, nRead, client_write, nConnect, qStart>>

\* lines 65-70: copy returns Err, either because reading the upstream failed
\* (lost = <<>>) or because writing a chunk already read to the client
\* failed (lost = that chunk); whois_stream is dropped
CopyErr(s, lost) ==
    /\ pc[s] = "Copying"
    /\ Len(client_write[s]) + Len(lost) <= MaxBytes
    /\ whois_stream' = [whois_stream EXCEPT ![s].recv = @ \o lost]
    /\ log' = [log EXCEPT ![s] = Append(@, LogCopyFailed)]
    /\ open_streams' = [open_streams EXCEPT ![s] = @ \ {whois_stream[s].id}]
    /\ pc' = [pc EXCEPT ![s] = "Reading"]
    /\ UNCHANGED <<item, nRead, client_write, client_open, nConnect, qStart,
                   result>>

\* one session alone: the steps of its rwhois_process
Next ==
    \/ \E s \in Sessions, l \in Lines :
            ReadLine(s, l) /\ UNCHANGED <<clientVars, serveVars>>
    \/ \E s \in Sessions : ReadErr(s) /\ UNCHANGED <<clientVars, serveVars>>
    \/ \E s \in Sessions : ReadNone(s) /\ UNCHANGED <<clientVars, serveVars>>
    \/ \E s \in Sessions : ConnectOk(s) /\ UNCHANGED <<clientVars, serveVars>>
    \/ \E s \in Sessions : ConnectErr(s) /\ UNCHANGED <<clientVars, serveVars>>
    \/ \E s \in Sessions : WriteOk(s) /\ UNCHANGED <<clientVars, serveVars>>
    \/ \E s \in Sessions : WriteErr(s) /\ UNCHANGED <<clientVars, serveVars>>
    \/ \E s \in Sessions, b \in Bytes :
            CopyChunk(s, b) /\ UNCHANGED <<clientVars, serveVars>>
    \/ \E s \in Sessions : CopyEof(s) /\ UNCHANGED <<clientVars, serveVars>>
    \/ \E s \in Sessions, lost \in {<<>>} \cup {<<b>> : b \in Bytes} :
            CopyErr(s, lost) /\ UNCHANGED <<clientVars, serveVars>>

Spec == Init /\ [][Next]_vars

---------------------------------------------------------------------------
(* rwhois_serve and main (lines 100-137): the listener, the tasks it        *)
(* spawns, one per connection, and the clients' sockets.                    *)

\* connections accepted in a run
MaxSessions == 2

\* the lines clients send in these runs (a query that is routed and one
\* that is rejected) and the bytes upstreams send
ServeLines == SampleTokens \ {Str_x}
ServeBytes == {"a"}

\* the values codec.next() has returned to the sessions 1..n together
RECURSIVE ReadsUpTo(_)
ReadsUpTo(n) == IF n = 0 THEN 0 ELSE nRead[n] + ReadsUpTo(n - 1)

\* the bytes copy has read from the upstreams of the sessions 1..n together
RECURSIVE CopiedUpTo(_)
CopiedUpTo(n) ==
    IF n = 0 THEN 0 ELSE Len(client_write[n]) + CopiedUpTo(n - 1)

\* state at the entry of rwhois_serve: nothing bound, nothing accepted
ServeInit ==
    /\ pc = <<>>
    /\ item = <<>>
    /\ nRead = <<>>
    /\ client_write = <<>>
    /\ client_open = <<>>
    /\ whois_stream = <<>>
    /\ open_streams = <<>>
    /\ nConnect = <<>>
    /\ qStart = <<>>
    /\ log = <<>>
    /\ result = <<>>
    /\ client_state = <<>>
    /\ tick = <<>>
    /\ listener = "binding"
    /\ nAccepted = 0
    /\ serve_log = <<>>

\* lines 101-102: bind returned Ok
BindOk ==
    /\ listener = "binding"
    /\ listener' = "accepting"
    /\ serve_log' = Append(serve_log, LogRunning)
    /\ UNCHANGED <<sessVars, clientVars, nAccepted>>

\* line 101: bind returned Err, the ? makes rwhois_serve return it
BindErr ==
    /\ listener = "binding"
    /\ listener' = "failed"
    /\ UNCHANGED <<sessVars, clientVars, nAccepted, serve_log>>

\* lines 105-111: accept returned a connection; a task is spawned for it,
\* which enters rwhois_process (lines 41-42) and parks at codec.next()
Accept ==
    /\ listener = "accepting"
    /\ nAccepted < MaxSessions
    /\ nAccepted' = nAccepted + 1
    /\ LET s == nAccepted + 1 IN
       /\ pc' = pc @@ (s :> "Reading")
       /\ item' = item @@ (s :> NoItem)
       /\ nRead' = nRead @@ (s :> 0)
       /\ client_write' = client_write @@ (s :> <<>>)
       /\ client_open' = client_open @@ (s :> TRUE)
       /\ whois_stream' = whois_stream @@ (s :> NoStream)
       /\ open_streams' = open_streams @@ (s :> {})
       /\ nConnect' = nConnect @@ (s :> 0)
       /\ qStart' = qStart @@ (s :> 0)
       /\ log' = log @@ (s :> <<>>)
       /\ result' = result @@ (s :> Running)
       /\ client_state' = client_state @@ (s :> "sending")
       /\ tick' = tick @@ (s :> 0)
    /\ UNCHANGED <<listener, serve_log>>

\* line 105: accept returned Err, the ? makes rwhois_serve return it
AcceptErr ==
    /\ listener = "accepting"
    /\ listener' = "failed"
    /\ UNCHANGED <<sessVars, clientVars, nAccepted, serve_log>>

\* lines 130-136: block_on returned the Err of rwhois_serve; main logs it
\* and returns, which ends the process and every task with it
MainExit ==
    /\ listener = "failed"
    /\ serve_log' = Append(serve_log, LogServeError)
    /\ listener' = "exited"
    /\ UNCHANGED <<sessVars, clientVars, nAccepted>>

\* variant: the Err of a session is returned from the accept loop
spawn_Inline(s, step) ==
    /\ listener \in {"accepting", "failed"}
    /\ step
    /\ serve_log' = IF result[s] = Running
                       /\ result'[s] \in {ErrInvalidDomain, ErrCodec}
                    THEN Append(serve_log, LogProcessError)
                    ELSE serve_log
    /\ listener' = IF result[s] = Running
                      /\ result'[s] \in {ErrInvalidDomain, ErrCodec}
                   THEN "failed"
                   ELSE listener
    /\ UNCHANGED nAccepted

\* lines 107-111: the task of connection s takes a step of rwhois_process
\* while the process runs; if the step returns Err, the task logs it
spawn(s, step) ==
    /\ listener \in {"accepting", "failed"}
    /\ step
    /\ serve_log' = IF result[s] = Running
                       /\ result'[s] \in {ErrInvalidDomain, ErrCodec}
                    THEN Append(serve_log, LogProcessError)
                    ELSE serve_log
    /\ UNCHANGED <<listener, nAccepted>>

\* the client of s closes its side after the lines it has sent
ClientEof(s) ==
    /\ listener \in {"accepting", "failed"}
    /\ client_open[s]
    /\ client_state[s] = "sending"
    /\ client_state' = [client_state EXCEPT ![s] = "eof"]
    /\ UNCHANGED <<sessVars, tick, serveVars>>

\* the socket of s starts to fail: every read of it returns an error
ClientFails(s) ==
    /\ listener \in {"accepting", "failed"}
    /\ client_open[s]
    /\ client_state[s] = "sending"
    /\ client_state' = [client_state EXCEPT ![s] = "failing"]
    /\ UNCHANGED <<sessVars, tick, serveVars>>

\* lines 85-90 on a socket that keeps failing: codec.next() yields
\* Some(Err(e)) again and the loop goes round.  The run of failures is
\* folded: log keeps one record for it and tick the parity of its length.
ReadFailing(s) ==
    /\ pc[s] = "Reading"
    /\ item' = [item EXCEPT ![s] = [kind |-> "err", l |-> <<>>]]
    /\ qStart' = [qStart EXCEPT ![s] = Len(client_write[s])]
    /\ log' = [log EXCEPT ![s] =
            IF item[s].kind = "err" THEN @ ELSE Append(@, LogCodecError)]
    /\ tick' = [tick EXCEPT ![s] = 1 - @]
    /\ pc' = [pc EXCEPT ![s] = "Reading"]
    /\ whois_stream' = [whois_stream EXCEPT ![s] = NoStream]
    /\ UNCHANGED <<nRead, client_write, client_open, open_streams, nConnect,
                   result>>

\* what codec.next() can yield depends on the socket: a line or a framing
\* error while the client sends, None at its end-of-stream
CanRead(s) ==
    /\ client_state[s] = "sending"
    /\ ReadsUpTo(nAccepted) < MaxLines

\* an upstream has a byte to send
CanCopy == CopiedUpTo(nAccepted) < MaxBytes

\* the listener, the tasks and the clients, whose sockets work until closed
ServeNext ==
    \/ BindOk
    \/ BindErr
    \/ Accept
    \/ AcceptErr
    \/ MainExit
    \/ \E s \in Sessions : ClientEof(s)
    \/ \E s \in Sessions, l \in ServeLines :
            spawn(s, CanRead(s) /\ ReadLine(s, l)) /\ UNCHANGED clientVars
    \/ \E s \in Sessions :
            spawn(s, CanRead(s) /\ ReadErr(s)) /\ UNCHANGED clientVars
    \/ \E s \in Sessions :
            spawn(s, client_state[s] = "eof" /\ ReadNone(s))
            /\ UNCHANGED clientVars
    \/ \E s \in Sessions : spawn(s, ConnectOk(s)) /\ UNCHANGED clientVars
    \/ \E s \in Sessions : spawn(s, ConnectErr(s)) /\ UNCHANGED clientVars
    \/ \E s \in Sessions : spawn(s, WriteOk(s)) /\ UNCHANGED clientVars
    \/ \E s \in Sessions : spawn(s, WriteErr(s)) /\ UNCHANGED clientVars
    \/ \E s \in Sessions, b \in ServeBytes :
            spawn(s, CanCopy /\ CopyChunk(s, b)) /\ UNCHANGED clientVars
    \/ \E s \in Sessions : spawn(s, CopyEof(s)) /\ UNCHANGED clientVars
    \/ \E s \in Sessions : spawn(s, CopyErr(s, <<>>)) /\ UNCHANGED clientVars

ServeSpec == ServeInit /\ [][ServeNext]_vars

---------------------------------------------------------------------------
(* One session to its end: the task of the first connection, its client,   *)
(* whose socket may close or fail, and its upstreams, under the scheduling *)
(* of the runtime.                                                          *)

\* the client of s stops delivering lines
ClientStops(s) == ClientEof(s) \/ ClientFails(s)

\* the upstream of s closes or errors while copy reads it
UpstreamEnds(s) ==
    \/ spawn(s, CopyEof(s)) /\ UNCHANGED clientVars
    \/ spawn(s, CopyErr(s, <<>>)) /\ UNCHANGED clientVars

\* codec.next() returns to the task of s
ReadReturns(s) ==
    \/ \E l \in ServeLines :
            spawn(s, CanRead(s) /\ ReadLine(s, l)) /\ UNCHANGED clientVars
    \/ spawn(s, CanRead(s) /\ ReadErr(s)) /\ UNCHANGED clientVars
    \/ spawn(s, client_state[s] = "eof" /\ ReadNone(s)) /\ UNCHANGED clientVars
    \/ spawn(s, client_state[s] = "failing" /\ ReadFailing(s))
       /\ UNCHANGED client_state

\* connect or write_all returns to the task of s
UpstreamReturns(s) ==
    \/ spawn(s, ConnectOk(s)) /\ UNCHANGED clientVars
    \/ spawn(s, ConnectErr(s)) /\ UNCHANGED clientVars
    \/ spawn(s, WriteOk(s)) /\ UNCHANGED clientVars
    \/ spawn(s, WriteErr(s)) /\ UNCHANGED clientVars

LiveNext ==
    \/ \E s \in Sessions : ClientEof(s)
    \/ \E s \in Sessions : ClientFails(s)
    \/ \E s \in Sessions, l \in ServeLines :
            spawn(s, CanRead(s) /\ ReadLine(s, l)) /\ UNCHANGED clientVars
    \/ \E s \in Sessions :
            spawn(s, CanRead(s) /\ ReadErr(s)) /\ UNCHANGED clientVars
    \/ \E s \in Sessions :
            spawn(s, client_state[s] = "eof" /\ ReadNone(s))
            /\ UNCHANGED clientVars
    \/ \E s \in Sessions :
            spawn(s, client_state[s] = "failing" /\ ReadFailing(s))
            /\ UNCHANGED client_state
    \/ \E s \in Sessions : spawn(s, ConnectOk(s)) /\ UNCHANGED clientVars
    \/ \E s \in Sessions : spawn(s, ConnectErr(s)) /\ UNCHANGED clientVars
    \/ \E s \in Sessions : spawn(s, WriteOk(s)) /\ UNCHANGED clientVars
    \/ \E s \in Sessions : spawn(s, WriteErr(s)) /\ UNCHANGED clientVars
    \/ \E s \in Sessions, b \in ServeBytes :
            spawn(s, CanCopy /\ CopyChunk(s, b)) /\ UNCHANGED clientVars
    \/ \E s \in Sessions : spawn(s, CopyEof(s)) /\ UNCHANGED clientVars
    \/ \E s \in Sessions : spawn(s, CopyErr(s, <<>>)) /\ UNCHANGED clientVars

\* the client stops; every upstream read by copy closes or errors; the
\* runtime resumes a task whose await has a value for it
LiveFairness ==
    /\ WF_vars(ClientStops(1))
    /\ WF_vars(UpstreamEnds(1))
    /\ WF_vars(ReadReturns(1))
    /\ WF_vars(UpstreamReturns(1))

LiveSpec == Init /\ [][LiveNext]_vars /\ LiveFairness

---------------------------------------------------------------------------
(* What the claims say of a line, stated on the characters of the line and *)
(* not through the splits the code computes.                               *)

NonWs(l) == SelectSeq(l, LAMBDA c : c \notin Whitespace)

\* the number of maximal runs of non-whitespace characters
TokenCount(l) ==
    Cardinality({i \in 1..Len(l) :
        l[i] \notin Whitespace /\ (i = 1 \/ l[i - 1] \in Whitespace)})

HasDot(t) == \E i \in 1..Len(t) : t[i] = "."

\* t is name.S for some (possibly empty) name
EndsWithLabel(t, S) ==
    /\ Len(t) > Len(S)
    /\ t[Len(t) - Len(S)] = "."
    /\ SubSeq(t, Len(t) - Len(S) + 1, Len(t)) = S

\* the characters after the last dot; the whole of t when it has no dot
TrailingLabel(t) ==
    LET dots == {i \in 1..Len(t) : t[i] = "."} IN
    IF dots = {} THEN t
    ELSE SubSeq(t, (CHOOSE i \in dots : \A j \in dots : j <= i) + 1, Len(t))

IsLine(s) == item[s].kind = "line"

\* the line being processed is a single token
SingleToken(s) == IsLine(s) /\ TokenCount(item[s].l) = 1

Logged(s, rec) == \E i \in 1..Len(log[s]) : log[s][i] = rec

LastLogged(s, rec) == log[s] /= <<>> /\ log[s][Len(log[s])] = rec

Str_x_com == Str_x \o <<".">> \o Str_com

---------------------------------------------------------------------------
(* C1: a single-token line name.S, S a suffix of the routing table with     *)
(* upstream U, makes exactly one connect call, to U on port 43, on a fresh *)
(* stream (a new id, nothing written or read on it, not one already open); *)
(* no step taken while a query is being processed (the outcome of the     *)
(* connect, of the write, of the copy) makes another connect call.         *)
C1_OneConnectPerQuery ==
    [][\A s \in Sessions :
        /\ \A S \in DOMAIN WHOIS_LUT :
              ( /\ nRead'[s] = nRead[s] + 1
                /\ item'[s].kind = "line"
                /\ TokenCount(item'[s].l) = 1
                /\ EndsWithLabel(NonWs(item'[s].l), S) )
              => /\ nConnect'[s] = nConnect[s] + 1
                 /\ whois_stream'[s] =
                        [id |-> nConnect[s] + 1,
                         addr |-> [host |-> WHOIS_LUT[S], port |-> 43],
                         sent |-> <<>>, written |-> FALSE, recv |-> <<>>,
                         eof |-> FALSE]
                 /\ open_streams[s] = {}
        /\ pc[s] /= "Reading"
              => /\ nConnect'[s] = nConnect[s]
                 /\ whois_stream'[s].id = whois_stream[s].id
                 /\ whois_stream'[s].addr = whois_stream[s].addr
                 /\ open_streams'[s] \subseteq {whois_stream[s].id}
      ]_vars

\* a second query, for another upstream, whose only attempt failed
C1_Witness ==
    \E s \in Sessions :
        /\ SingleToken(s) /\ EndsWithLabel(NonWs(item[s].l), Str_io)
        /\ nRead[s] = 2 /\ nConnect[s] = 2
        /\ pc[s] = "Reading"
        /\ LastLogged(s, LogConnectFailed)
        /\ whois_stream[s].addr = [host |-> "whois.nic.io", port |-> 43]

(* C2, as stated: every single-token line whose trailing label is absent   *)
(* from the routing table gets exactly "Invalid domain name" written to    *)
(* the client for it, makes no connect call, and ends the session with     *)
(* Err(InvalidDomainError).                                                *)
C2_RejectEverySingleToken ==
    \A s \in Sessions :
        ( /\ SingleToken(s)
          /\ TrailingLabel(NonWs(item[s].l)) \notin DOMAIN WHOIS_LUT )
        => /\ QueryOut(s) = InvalidDomainText
           /\ whois_stream[s] = NoStream
           /\ pc[s] = "Closed"
           /\ result[s] = ErrInvalidDomain

(* C2, amended: the same, for the single-token lines whose token contains  *)
(* a '.' (a token without one is discarded, as C3 says).                    *)
C2_RejectUnknownSuffix ==
    \A s \in Sessions :
        ( /\ SingleToken(s)
          /\ HasDot(NonWs(item[s].l))
          /\ TrailingLabel(NonWs(item[s].l)) \notin DOMAIN WHOIS_LUT )
        => /\ QueryOut(s) = InvalidDomainText
           /\ whois_stream[s] = NoStream
           /\ open_streams[s] = {}
           /\ pc[s] = "Closed"
           /\ ~client_open[s]
           /\ result[s] = ErrInvalidDomain

\* a second line, after a relayed answer, is rejected
C2_Witness ==
    \E s \in Sessions :
        /\ SingleToken(s)
        /\ EndsWithLabel(NonWs(item[s].l), Str_zz)
        /\ nRead[s] = 2 /\ qStart[s] > 0
        /\ pc[s] = "Closed"
        /\ result[s] = ErrInvalidDomain
        /\ QueryOut(s) = InvalidDomainText

(* C3: a line of zero tokens, of more than one token, or of one token       *)
(* without a '.' makes no connect call, writes nothing to the client, and  *)
(* leaves the session running in Reading with the client connection open.  *)
C3_NonRoutableIgnored ==
    \A s \in Sessions :
        ( /\ IsLine(s)
          /\ \/ TokenCount(item[s].l) /= 1
             \/ ~HasDot(NonWs(item[s].l)) )
        => /\ whois_stream[s] = NoStream
           /\ open_streams[s] = {}
           /\ QueryOut(s) = <<>>
           /\ pc[s] = "Reading"
           /\ client_open[s]
           /\ result[s] = Running

\* a single token without a dot that is a key of the table, read second
C3_Witness ==
    \E s \in Sessions :
        /\ IsLine(s) /\ item[s].l = Str_com
        /\ nRead[s] = 2
        /\ pc[s] = "Reading" /\ client_open[s]

(* C4: the bytes written to the client for a query are at every moment a   *)
(* prefix of the bytes the upstream has sent; they are all of them while    *)
(* the copy runs, and exactly them once the upstream has closed.            *)
C4_RelayBytePreserving ==
    \A s \in Sessions :
        /\ whois_stream[s].written
              => /\ IsPrefix(QueryOut(s), whois_stream[s].recv)
                 /\ (pc[s] = "Copying" \/ whois_stream[s].eof)
                        => QueryOut(s) = whois_stream[s].recv
        /\ (whois_stream[s].id /= 0 /\ ~whois_stream[s].written)
              => QueryOut(s) = <<>> /\ whois_stream[s].recv = <<>>

\* the upstream sent two different bytes and closed
C4_Witness ==
    \E s \in Sessions :
        /\ whois_stream[s].eof
        /\ Len(whois_stream[s].recv) = 2
        /\ whois_stream[s].recv[1] /= whois_stream[s].recv[2]
        /\ QueryOut(s) = whois_stream[s].recv

\* the connect of the line being processed has failed
ConnectFailed(s) ==
    /\ whois_stream[s].id /= 0
    /\ pc[s] /= "Connecting"
    /\ whois_stream[s].sent = <<>>

(* C5: after a failed connect the failure is the last thing logged, nothing *)
(* was written to the client for the query, no stream is open, and the     *)
(* session is running in Reading with the client connection open.          *)
C5_SurvivesConnectFailure ==
    \A s \in Sessions :
        ConnectFailed(s)
        => /\ LastLogged(s, LogConnectFailed)
           /\ QueryOut(s) = <<>>
           /\ open_streams[s] = {}
           /\ pc[s] = "Reading"
           /\ client_open[s]
           /\ result[s] = Running

\* after a failed connect, the next query was connected, forwarded and relayed
C5_Witness ==
    \E s \in Sessions :
        /\ Logged(s, LogConnectFailed)
        /\ nRead[s] = 2 /\ nConnect[s] = 2
        /\ whois_stream[s].sent = request(NonWs(item[s].l))
        /\ whois_stream[s].eof
        /\ whois_stream[s].recv /= <<>>
        /\ QueryOut(s) = whois_stream[s].recv

(* C6: what the session hands to an upstream connection is nothing while   *)
(* connecting and, from then on, exactly the token of the line followed by *)
(* CR LF, once; and no upstream byte is read or relayed before that write   *)
(* has returned Ok.                                                         *)
C6_ForwardTokenCrLf ==
    \A s \in Sessions :
        whois_stream[s].id /= 0
        => /\ SingleToken(s)
           /\ whois_stream[s].sent \in {<<>>, NonWs(item[s].l) \o <<"\r", "\n">>}
           /\ pc[s] = "Connecting" => whois_stream[s].sent = <<>>
           /\ (pc[s] \in {"Forwarding", "Copying"} \/ whois_stream[s].written)
                 => whois_stream[s].sent = NonWs(item[s].l) \o <<"\r", "\n">>
           /\ (pc[s] = "Copying" \/ whois_stream[s].recv /= <<>> \/ QueryOut(s) /= <<>>)
                 => whois_stream[s].written

\* a token surrounded by whitespace was forwarded without it, and answered
C6_Witness ==
    \E s \in Sessions :
        /\ IsLine(s) /\ item[s].l = <<"\t">> \o Str_x_com \o <<" ", "\r">>
        /\ whois_stream[s].sent = Str_x_com \o <<"\r", "\n">>
        /\ pc[s] = "Copying"
        /\ QueryOut(s) /= <<>>

(* C7: a session is Closed exactly when it has returned; it returns Ok on   *)
(* the client's end-of-stream and Err(InvalidDomainError) on a line whose  *)
(* trailing label is absent from the table, and on nothing else: never on  *)
(* a framing error, and never from the connect, the write or the copy; it  *)
(* never returns a CodecError; closed before any line, it has made no      *)
(* connect call.                                                           *)
C7_TerminatesOnlyOnEofOrInvalid ==
    \A s \in Sessions :
        /\ result[s] \in {Running, OkResult, ErrInvalidDomain}
        /\ pc[s] = "Closed" <=> result[s] /= Running
        /\ pc[s] = "Closed"
              => /\ whois_stream[s] = NoStream
                 /\ \/ item[s].kind = "eof" /\ result[s] = OkResult
                    \/ /\ SingleToken(s)
                       /\ TrailingLabel(NonWs(item[s].l)) \notin DOMAIN WHOIS_LUT
                       /\ result[s] = ErrInvalidDomain
        /\ item[s].kind = "err" => pc[s] = "Reading"
        /\ whois_stream[s].id /= 0 => pc[s] /= "Closed"
        /\ (pc[s] = "Closed" /\ nRead[s] = 0)
              => result[s] = OkResult /\ nConnect[s] = 0 /\ client_write[s] = <<>>

\* a session that met a framing error and a failed copy ends cleanly
C7_Witness ==
    \E s \in Sessions :
        /\ pc[s] = "Closed" /\ result[s] = OkResult
        /\ Logged(s, LogCodecError)
        /\ Logged(s, LogCopyFailed)

(* C8: once the copy of a query has ended, the upstream has closed or the  *)
(* failure is the last thing logged, the stream is released, and the       *)
(* session is running in Reading with the client connection open.          *)
C8_ReadingAfterCopy ==
    \A s \in Sessions :
        (whois_stream[s].written /\ pc[s] /= "Copying")
        => /\ whois_stream[s].eof \/ LastLogged(s, LogCopyFailed)
           /\ ~(whois_stream[s].eof /\ LastLogged(s, LogCopyFailed))
           /\ open_streams[s] = {}
           /\ pc[s] = "Reading"
           /\ client_open[s]
           /\ result[s] = Running

\* after a failed copy, a further query is being relayed
C8_Witness ==
    \E s \in Sessions :
        /\ Logged(s, LogCopyFailed)
        /\ nRead[s] = 2 /\ nConnect[s] = 2
        /\ pc[s] = "Copying"
        /\ whois_stream[s].recv /= <<>>

(* C9: after a framing error the error is the last thing logged, nothing   *)
(* was written to the client, no connect call was made, and the session is *)
(* running in Reading with the client connection open.                     *)
C9_FramingErrorSkipped ==
    \A s \in Sessions :
        item[s].kind = "err"
        => /\ LastLogged(s, LogCodecError)
           /\ QueryOut(s) = <<>>
           /\ whois_stream[s] = NoStream
           /\ open_streams[s] = {}
           /\ pc[s] = "Reading"
           /\ client_open[s]
           /\ result[s] = Running

\* a framing error met after a relayed answer
C9_Witness ==
    \E s \in Sessions :
        /\ item[s].kind = "err"
        /\ nRead[s] = 2 /\ client_write[s] /= <<>>
        /\ pc[s] = "Reading"

(* C10: a session in Reading or Closed holds no open upstream stream; it    *)
(* never holds more than one, and the one it holds is the stream of the    *)
(* line being processed.                                                   *)
C10_UpstreamReleased ==
    \A s \in Sessions :
        /\ pc[s] \in {"Reading", "Closed"} => open_streams[s] = {}
        /\ Cardinality(open_streams[s]) <= 1
        /\ open_streams[s] \subseteq {whois_stream[s].id} \ {0}
        /\ pc[s] \in {"Forwarding", "Copying"} => open_streams[s] = {whois_stream[s].id}

\* the write to a second upstream stream failed and the stream was released
C10_Witness ==
    \E s \in Sessions :
        /\ nConnect[s] = 2
        /\ whois_stream[s].sent /= <<>>
        /\ ~whois_stream[s].written
        /\ pc[s] = "Reading"
        /\ open_streams[s] = {}

\* the write of the request of the line being processed has failed
WriteFailed(s) ==
    /\ whois_stream[s].sent /= <<>>
    /\ ~whois_stream[s].written
    /\ pc[s] /= "Forwarding"

(* C11, as stated: after the write of the forwarded query has failed, a     *)
(* record of the failure follows the "Would use" record of the query in    *)
(* the log, the upstream stream is released, nothing was relayed for the   *)
(* query, and the session is in Reading with the client connection open.   *)
C11_WriteFailureLogged ==
    \A s \in Sessions :
        WriteFailed(s)
        => /\ ~LastLogged(s, LogWouldUse)
           /\ open_streams[s] = {}
           /\ QueryOut(s) = <<>>
           /\ pc[s] = "Reading"
           /\ client_open[s]

C18_EmptyLastLabelRejected ==
    \A s \in Sessions :
        ( /\ SingleToken(s)
          /\ NonWs(item[s].l)[Len(NonWs(item[s].l))] = "." )
        => /\ QueryOut(s) = InvalidDomainText
           /\ whois_stream[s] = NoStream
           /\ pc[s] = "Closed"
           /\ ~client_open[s]
           /\ result[s] = ErrInvalidDomain

\* the token "." alone, read second
C18_Witness ==
    \E s \in Sessions :
        /\ IsLine(s) /\ item[s].l = <<".">>
        /\ nRead[s] = 2
        /\ pc[s] = "Closed"
        /\ QueryOut(s) = InvalidDomainText

(* C17: a session reads a line only in Reading, when no upstream stream is  *)
(* open: the line, the count of reads and the start of the query's output  *)
(* stay as they are while a query is connected, forwarded and relayed.     *)
(* What the client has been written is only ever extended, and each        *)
(* extension is the chunk the upstream stream of the line being processed  *)
(* has just sent, or the rejection text that ends the session: the client  *)
(* receives the answers one after the other, in the order of the queries.  *)
C17_OneQueryAtATime ==
    [][\A s \in Sessions :
        LET added == SubSeq(client_write'[s], Len(client_write[s]) + 1,
                            Len(client_write'[s])) IN
        /\ pc[s] /= "Reading"
              => /\ item'[s] = item[s]
                 /\ nRead'[s] = nRead[s]
                 /\ qStart'[s] = qStart[s]
                 /\ whois_stream'[s].id = whois_stream[s].id
        /\ pc[s] = "Reading" => open_streams[s] = {}
        /\ IsPrefix(client_write[s], client_write'[s])
        /\ added /= <<>>
              => \/ /\ pc[s] = "Copying"
                    /\ whois_stream'[s].recv = whois_stream[s].recv \o added
                 \/ /\ pc[s] = "Reading"
                    /\ added = InvalidDomainText
                    /\ pc'[s] = "Closed"
      ]_vars

\* two queries answered "a" and "b": the client has "ab"
C17_Witness ==
    \E s \in Sessions :
        /\ nRead[s] = 2 /\ nConnect[s] = 2
        /\ whois_stream[s].eof
        /\ qStart[s] = 1
        /\ whois_stream[s].recv = <<"b">>
        /\ client_write[s] = <<"a", "b">>

(* C19: the session of a client that stops delivering lines, whether by an *)
(* end-of-stream or by a socket whose reads keep failing, and whose        *)
(* upstreams all close or error, eventually reaches Closed.                *)
C19_SessionEventuallyCloses == <>(pc[1] = "Closed")

---------------------------------------------------------------------------
(* What the claims say of several sessions.                                *)

\* everything the model holds of session s
SessionState(s) ==
    <<pc[s], item[s], nRead[s], client_write[s], client_open[s],
      whois_stream[s], open_streams[s], nConnect[s], qStart[s], log[s],
      result[s]>>

\* session s ends in this step
Ends(s) == result[s] = Running /\ result'[s] /= Running

(* C14: the sessions are exactly the accepted connections, and a step that *)
(* accepts one starts one session, at its first read, and leaves the       *)
(* others as they are.  While the listener accepts, the next accept is     *)
(* possible whatever the sessions have done; it leaves that state only    *)
(* for the failed one, by a step that is no session's (the Err of accept), *)
(* as a failed bind does; from there main logs the error and the process  *)
(* exits, after which nothing happens.  A step in which a session ends,   *)
(* with Ok or with Err, leaves the listener where it is.                   *)
C14_OneSessionPerAccept ==
    [][/\ Sessions' = 1..nAccepted'
       /\ nAccepted' /= nAccepted
             => /\ listener = "accepting" /\ listener' = "accepting"
                /\ nAccepted' = nAccepted + 1
                /\ Sessions' = Sessions \cup {nAccepted'}
                /\ nAccepted' \notin Sessions
                /\ pc'[nAccepted'] = "Reading"
                /\ result'[nAccepted'] = Running
                /\ nRead'[nAccepted'] = 0
                /\ \A s \in Sessions : SessionState(s)' = SessionState(s)
       /\ (listener = "accepting" /\ nAccepted < MaxSessions) => ENABLED Accept
       /\ (listener = "accepting" /\ listener' /= "accepting")
             => /\ listener' = "failed"
                /\ UNCHANGED <<sessVars, nAccepted, serve_log>>
       /\ (listener = "binding" /\ listener' /= "binding")
             => /\ listener' \in {"accepting", "failed"}
                /\ Sessions' = {}
       /\ listener = "failed"
             => /\ listener' \in {"failed", "exited"}
                /\ listener' = "exited"
                      => serve_log' = Append(serve_log, LogServeError)
       /\ listener = "failed" => ENABLED MainExit
       /\ listener = "exited" => UNCHANGED vars
       /\ \A s \in Sessions : Ends(s) => listener' = listener
      ]_vars

\* a session ended with Err and was logged, two connections were accepted,
\* then accept failed, main logged it and the process exited
C14_Witness ==
    /\ listener = "exited"
    /\ nAccepted = 2
    /\ result[1] = ErrInvalidDomain
    /\ result[2] = Running
    /\ serve_log = <<LogRunning, LogProcessError, LogServeError>>

\* session s meets an error in this step: a framing error, a failed
\* connect, a failed copy, a failed write, or the return of Err
Fails(s) ==
    \/ /\ Len(log'[s]) > Len(log[s])
       /\ log'[s][Len(log'[s])] \in
              {LogCodecError, LogConnectFailed, LogCopyFailed}
    \/ pc[s] = "Forwarding" /\ pc'[s] = "Reading"
    \/ result[s] = Running /\ result'[s] = ErrInvalidDomain

(* C12: in every step of every interleaving, a session that takes the step *)
(* is the only one whose state or client output changes, and a step in     *)
(* which a session meets an error changes no other session, no client's   *)
(* socket but its own, and leaves the listener and its count of accepted  *)
(* connections as they are.                                                *)
C12_SessionsIsolated ==
    [][\A s \in Sessions :
        /\ SessionState(s)' /= SessionState(s)
              => \A t \in Sessions \ {s} : SessionState(t)' = SessionState(t)
        /\ Fails(s)
              => /\ \A t \in Sessions \ {s} :
                        /\ SessionState(t)' = SessionState(t)
                        /\ client_state'[t] = client_state[t]
                 /\ listener' = listener
                 /\ nAccepted' = nAccepted
                 /\ Sessions' = Sessions
      ]_vars

\* session 1 returned Err while session 2 relays an answer, and the
\* listener still accepts
C12_Witness ==
    /\ listener = "accepting"
    /\ nAccepted = 2
    /\ result[1] = ErrInvalidDomain
    /\ pc[2] = "Copying"
    /\ client_write[2] = <<"a">>
    /\ log[2] = <<LogWouldUse>>

\* session s has ended: its client reached end-of-stream, or it was sent the
\* rejection text
Ended(s) ==
    \/ item[s].kind = "eof"
    \/ IsLine(s) /\ QueryOut(s) = InvalidDomainText

(* C15: a session that has ended is Closed, has returned and has dropped   *)
(* its client connection, and no step changes it any more: it reads        *)
(* nothing (the count of reads and the last value read stay), writes       *)
(* nothing to its client and makes no connect call, also while its client *)
(* still sends lines and while other sessions and the listener go on.      *)
C15_ClosedIsTerminal ==
    [][\A s \in Sessions :
        /\ Ended(s) <=> pc[s] = "Closed"
        /\ Ended(s)
              => /\ result[s] /= Running
                 /\ ~client_open[s]
                 /\ open_streams[s] = {}
                 /\ nRead'[s] = nRead[s]
                 /\ item'[s] = item[s]
                 /\ client_write'[s] = client_write[s]
                 /\ nConnect'[s] = nConnect[s]
                 /\ SessionState(s)' = SessionState(s)
      ]_vars

\* session 1 was rejected; its client still sends and a line would be read
\* by a session at its read; session 2 was accepted and reads
C15_Witness ==
    /\ nAccepted = 2
    /\ pc[1] = "Closed"
    /\ result[1] = ErrInvalidDomain
    /\ QueryOut(1) = InvalidDomainText
    /\ CanRead(1)
    /\ pc[2] = "Reading"
    /\ listener = "accepting"

\* the task of session t can be resumed where it waits for its upstream or
\* for the end of its client's stream
Resumable(t) ==
    /\ pc[t] = "Connecting"
          => ENABLED (spawn(t, ConnectOk(t)) /\ UNCHANGED clientVars)
    /\ pc[t] = "Forwarding"
          => ENABLED (spawn(t, WriteOk(t)) /\ UNCHANGED clientVars)
    /\ pc[t] = "Copying"
          => ENABLED (spawn(t, CopyEof(t)) /\ UNCHANGED clientVars)
    /\ (pc[t] = "Reading" /\ client_state[t] = "eof")
          => ENABLED (spawn(t, client_state[t] = "eof" /\ ReadNone(t))
                      /\ UNCHANGED clientVars)

(* C16: a session in Copying leaves it only for Reading, and only in the   *)
(* step in which its upstream closes (copy saw the end) or errors (the     *)
(* failed copy is logged); no other step of the model, however many are    *)
(* taken, moves it.  In Copying it reads nothing from its client (the     *)
(* count of reads and the last value read stay), it does not end, and the *)
(* step in which its client closes changes nothing of it.  While it is    *)
(* held, every other session of the running process can take its next     *)
(* step.                                                                   *)
C16_CopyHeldByUpstream ==
    [][\A s \in Sessions :
        pc[s] = "Copying"
        => /\ nRead'[s] = nRead[s]
           /\ item'[s] = item[s]
           /\ result'[s] = Running
           /\ client_open'[s]
           /\ pc'[s] \in {"Copying", "Reading"}
           /\ pc'[s] = "Reading"
                 => \/ /\ whois_stream'[s].eof
                       /\ log'[s] = log[s]
                    \/ /\ ~whois_stream'[s].eof
                       /\ log'[s] = Append(log[s], LogCopyFailed)
           /\ client_state'[s] /= client_state[s]
                 => /\ client_state'[s] = "eof"
                    /\ SessionState(s)' = SessionState(s)
           /\ client_state[s] = "eof" => client_state'[s] = "eof"
           /\ listener /= "exited"
                 => \A t \in Sessions \ {s} : Resumable(t)
      ]_vars

\* the upstream of session 1 is silent and its client has closed: the
\* session is in Copying; meanwhile session 2 was answered and has ended
C16_Witness ==
    /\ nAccepted = 2
    /\ pc[1] = "Copying"
    /\ whois_stream[1].recv = <<>>
    /\ client_state[1] = "eof"
    /\ result[1] = Running
    /\ pc[2] = "Closed"
    /\ result[2] = OkResult
    /\ client_write[2] = <<"a">>

===========================================================================
